---- MODULE Spec2Model ----
\* Model of core/lib/vm_interface/src/types/outputs/execution_result.rs:
\* the event extraction functions of VmEvent, the metrics derived from them,
\* the Call trace tree with its gas-blind equality, the synthesized top-level
\* call of a TransactionExecutionResult and the wire form of CallType::Call.
EXTENDS Integers, Sequences, FiniteSets, TLC

VARIABLES events, lhs, rhs, tx, call_type, wire, result, args, hasher, op, ret

vars == <<events, lhs, rhs, tx, call_type, wire, result, args, hasher, op, ret>>

-----------------------------------------------------------------------------
\* Bounds of the model.

\* Longest event sequence of an execution result.
MaxEvents == 2

-----------------------------------------------------------------------------
\* Byte strings, 32-byte hashes (H256) and addresses.

Zeros(n) == [i \in 1..n |-> 0]

\* H256::zero()
H256Zero == Zeros(32)

\* A 32-byte big-endian word holding n < 2^16.
Word32(n) == Zeros(30) \o <<n \div 256, n % 256>>

\* DEPLOY_EVENT_SIGNATURE with its last byte mistyped.
DeployEventSignatureTypo ==
    <<41, 10, 253, 174, 35, 26, 63, 192, 187, 174, 139, 26, 246, 54, 152, 176,
      161, 215, 155, 33, 173, 23, 223, 3, 66, 223, 185, 82, 254, 116, 248, 228>>

DEPLOY_EVENT_SIGNATURE ==
    <<41, 10, 253, 174, 35, 26, 63, 192, 187, 174, 139, 26, 246, 54, 152, 176,
      161, 215, 155, 33, 173, 23, 223, 3, 66, 223, 185, 82, 254, 116, 248, 229>>

L1_MESSENGER_BYTECODE_PUBLICATION_EVENT_SIGNATURE ==
    <<72, 13, 60, 159, 114, 123, 94, 92, 18, 3, 212, 198, 31, 177, 133, 211,
      127, 8, 230, 178, 220, 94, 155, 191, 152, 89, 27, 26, 122, 221, 245, 124>>

PUBLISHED_BYTECODE_SIGNATURE ==
    <<201, 71, 34, 255, 19, 234, 207, 83, 84, 124, 71, 65, 218, 181, 34, 131,
      83, 160, 89, 56, 255, 205, 213, 212, 162, 213, 51, 174, 14, 97, 130, 135>>

L1_MESSAGE_EVENT_SIGNATURE ==
    <<58, 54, 228, 114, 145, 244, 32, 31, 175, 19, 127, 171, 8, 29, 146, 41,
      91, 206, 45, 83, 190, 44, 108, 166, 139, 168, 44, 127, 170, 156, 226, 65>>

\* System contract addresses (zksync_system_constants), as the numeric value
\* of the 20-byte address: 0x8001, 0x8004, 0x8008.
BOOTLOADER_ADDRESS == 32769
KNOWN_CODES_STORAGE_ADDRESS == 32772
L1_MESSENGER_ADDRESS == 32776

\* Address::zero()
AddressZero == 0

\* Overhead in bytes of publishing one bytecode (zksync_system_constants).
PUBLISH_BYTECODE_OVERHEAD == 100

\* Option<T> and panics.
None == [tag |-> "None"]
Some(v) == [tag |-> "Some", val |-> v]
Ok(v) == [tag |-> "Ok", val |-> v]
Err(e) == [tag |-> "Err", err |-> e]
Panic(m) == [tag |-> "Panic", msg |-> m]
IsPanic(r) == r.tag = "Panic"

-----------------------------------------------------------------------------
\* ethabi::decode(&[ParamType::Bytes], data)

\* Any offset or length of 2^16 or more lies past the end of every value the
\* model builds; it is kept as this saturated value.
Saturated == 2^16

\* Reads a 32-byte word as usize: the 28 leading bytes must be zero.
AsUsize(word) ==
    IF \E i \in 1..28 : word[i] # 0 THEN Err("InvalidData")
    ELSE IF word[29] # 0 \/ word[30] # 0 THEN Ok(Saturated)
    ELSE Ok(word[31] * 256 + word[32])

\* The 32 bytes of data at byte offset off.
Peek32(data, off) ==
    IF off + 32 > Len(data) THEN Err("InvalidData")
    ELSE Ok(SubSeq(data, off + 1, off + 32))

PeekUsize(data, off) ==
    LET w == Peek32(data, off) IN
    IF w.tag = "Err" THEN w ELSE AsUsize(w.val)

TakeBytes(data, off, len) ==
    IF off + len > Len(data) THEN Err("InvalidData")
    ELSE Ok(SubSeq(data, off + 1, off + len))

\* Decodes data as one dynamic byte array: the head word is the offset of the
\* tail, the tail is a length word followed by the bytes.
AbiDecodeBytes(data) ==
    IF data = <<>> THEN Err("InvalidName")
    ELSE LET dynamic_offset == PeekUsize(data, 0) IN
         IF dynamic_offset.tag = "Err" THEN dynamic_offset
         ELSE LET len == PeekUsize(data, dynamic_offset.val) IN
              IF len.tag = "Err" THEN len
              ELSE TakeBytes(data, dynamic_offset.val + 32, len.val)

\* The ABI encoding of msg as `bytes`: 32 bytes of offset, 32 bytes of
\* length, the message padded with zeros to a multiple of 32.
AbiEncodeBytes(msg) ==
    Word32(32) \o Word32(Len(msg)) \o msg
        \o Zeros(((Len(msg) + 31) \div 32) * 32 - Len(msg))

-----------------------------------------------------------------------------
\* zksync_types::bytecode::BytecodeHash

\* BytecodeHash::try_from(H256): byte 0 is the bytecode marker, 1 for EraVM
\* and 2 for EVM bytecode; any other marker is an error.
BytecodeHashTryFrom(hash) ==
    IF hash[1] \in {1, 2} THEN Ok(hash) ELSE Err("unknown bytecode hash marker")

\* BytecodeHash::len_in_bytes: bytes 2..3 hold the length, big endian, in
\* 32-byte words for EraVM bytecode and in bytes for EVM bytecode.
LenInBytes(hash) ==
    LET raw_len == hash[3] * 256 + hash[4] IN
    IF hash[1] = 1 THEN raw_len * 32 ELSE raw_len

-----------------------------------------------------------------------------
\* VmEvent

VmEvent(address, indexed_topics, value) ==
    [address |-> address, indexed_topics |-> indexed_topics, value |-> value]

\* IsL1MessageEvent accepting any event of at least 3 topics.
IsL1MessageEventAtLeast3(event) ==
    /\ event.address = L1_MESSENGER_ADDRESS
    /\ Len(event.indexed_topics) >= 3
    /\ event.indexed_topics[1] = L1_MESSAGE_EVENT_SIGNATURE

IsL1MessageEvent(event) ==
    /\ event.address = L1_MESSENGER_ADDRESS
    /\ Len(event.indexed_topics) = 3
    /\ event.indexed_topics[1] = L1_MESSAGE_EVENT_SIGNATURE

\* DecodeL1Message substituting an empty message for a value that fails to decode.
DecodeL1MessageOrDefault(event) ==
    LET decoded_tokens == AbiDecodeBytes(event.value) IN
    IF decoded_tokens.tag = "Err" THEN Ok(<<>>) ELSE Ok(decoded_tokens.val)

\* The closure mapped over the admitted events: decode, or panic on failure.
DecodeL1Message(event) ==
    LET decoded_tokens == AbiDecodeBytes(event.value) IN
    IF decoded_tokens.tag = "Err"
    THEN Panic("Failed to decode L1MessageSent message")
    ELSE Ok(decoded_tokens.val)

RECURSIVE CollectL1Messages(_)
CollectL1Messages(evs) ==
    IF evs = <<>> THEN Ok(<<>>)
    ELSE IF ~IsL1MessageEvent(Head(evs)) THEN CollectL1Messages(Tail(evs))
    ELSE LET m == DecodeL1Message(Head(evs)) IN
         IF IsPanic(m) THEN m
         ELSE LET rest == CollectL1Messages(Tail(evs)) IN
              IF IsPanic(rest) THEN rest ELSE Ok(<<m.val>> \o rest.val)

extract_long_l2_to_l1_messages(evs) == CollectL1Messages(evs)

\* IsPublishedBytecodeEvent without the check of the address.
IsPublishedBytecodeEventAnyAddress(event) ==
    /\ Len(event.indexed_topics) = 3
    /\ event.indexed_topics[1] = PUBLISHED_BYTECODE_SIGNATURE
    /\ event.indexed_topics[3] # H256Zero

\* IsPublishedBytecodeEvent without the check of the third topic.
IsPublishedBytecodeEventAnyFlag(event) ==
    /\ event.address = KNOWN_CODES_STORAGE_ADDRESS
    /\ Len(event.indexed_topics) = 3
    /\ event.indexed_topics[1] = PUBLISHED_BYTECODE_SIGNATURE

IsPublishedBytecodeEvent(event) ==
    /\ event.address = KNOWN_CODES_STORAGE_ADDRESS
    /\ Len(event.indexed_topics) = 3
    /\ event.indexed_topics[1] = PUBLISHED_BYTECODE_SIGNATURE
    /\ event.indexed_topics[3] # H256Zero

RECURSIVE extract_published_bytecodes(_)
extract_published_bytecodes(evs) ==
    IF evs = <<>> THEN <<>>
    ELSE IF IsPublishedBytecodeEvent(Head(evs))
         THEN <<Head(evs).indexed_topics[2]>> \o extract_published_bytecodes(Tail(evs))
         ELSE extract_published_bytecodes(Tail(evs))

\* IsMarkedAsKnownEvent with the check of the third topic.
IsMarkedAsKnownEventNonZeroFlag(event) ==
    /\ event.address = KNOWN_CODES_STORAGE_ADDRESS
    /\ Len(event.indexed_topics) = 3
    /\ event.indexed_topics[1] = PUBLISHED_BYTECODE_SIGNATURE
    /\ event.indexed_topics[3] # H256Zero

IsMarkedAsKnownEvent(event) ==
    /\ event.address = KNOWN_CODES_STORAGE_ADDRESS
    /\ Len(event.indexed_topics) = 3
    /\ event.indexed_topics[1] = PUBLISHED_BYTECODE_SIGNATURE

RECURSIVE extract_bytecodes_marked_as_known(_)
extract_bytecodes_marked_as_known(evs) ==
    IF evs = <<>> THEN <<>>
    ELSE IF IsMarkedAsKnownEvent(Head(evs))
         THEN <<Head(evs).indexed_topics[2]>>
                  \o extract_bytecodes_marked_as_known(Tail(evs))
         ELSE extract_bytecodes_marked_as_known(Tail(evs))

\* IsDeployEvent reading topic 0 only of events with exactly 3 topics.
IsDeployEventArity3(event) ==
    /\ Len(event.indexed_topics) = 3
    /\ event.indexed_topics[1] = DEPLOY_EVENT_SIGNATURE

IsDeployEvent(event) ==
    /\ Len(event.indexed_topics) >= 1
    /\ event.indexed_topics[1] = DEPLOY_EVENT_SIGNATURE

contains_contract_deployment(evs) ==
    \E i \in 1..Len(evs) : IsDeployEvent(evs[i])

\* LongMessageBytes rounding up from len + 32 instead of len + 31.
LongMessageBytesOffByOne(msg) == ((Len(msg) + 32) \div 32) * 32 + 64

\* Published size of one long message: its length rounded up to a multiple
\* of 32, 32 bytes of encoded offset and 32 bytes of encoded length.
LongMessageBytes(msg) == ((Len(msg) + 31) \div 32) * 32 + 64

RECURSIVE SumLongMessages(_)
SumLongMessages(msgs) ==
    IF msgs = <<>> THEN 0
    ELSE LongMessageBytes(Head(msgs)) + SumLongMessages(Tail(msgs))

\* PublishedLen without the publication overhead.
PublishedLenNoOverhead(bytecode_hash) ==
    LET parsed == BytecodeHashTryFrom(bytecode_hash) IN
    IF parsed.tag = "Err" THEN Panic("published unparseable bytecode hash")
    ELSE Ok(LenInBytes(parsed.val))

\* The closure mapped over the published hashes: parse, or panic on failure.
PublishedLen(bytecode_hash) ==
    LET parsed == BytecodeHashTryFrom(bytecode_hash) IN
    IF parsed.tag = "Err" THEN Panic("published unparseable bytecode hash")
    ELSE Ok(LenInBytes(parsed.val) + PUBLISH_BYTECODE_OVERHEAD)

RECURSIVE SumPublishedBytecodes(_)
SumPublishedBytecodes(hashes) ==
    IF hashes = <<>> THEN Ok(0)
    ELSE LET n == PublishedLen(Head(hashes)) IN
         IF IsPanic(n) THEN n
         ELSE LET rest == SumPublishedBytecodes(Tail(hashes)) IN
              IF IsPanic(rest) THEN rest ELSE Ok(n.val + rest.val)

\* VmExecutionResultAndLogs::get_execution_metrics over logs.events. The
\* remaining fields of VmExecutionMetrics copy the opaque statistics and log
\* lengths and are left out.
get_execution_metrics(evs) ==
    LET long_messages == extract_long_l2_to_l1_messages(evs) IN
    IF IsPanic(long_messages) THEN long_messages
    ELSE LET l2_l1_long_messages == SumLongMessages(long_messages.val)
             published_bytecode_bytes ==
                 SumPublishedBytecodes(extract_published_bytecodes(evs))
         IN  IF IsPanic(published_bytecode_bytes) THEN published_bytecode_bytes
             ELSE LET contract_deployment_count ==
                          Len(extract_bytecodes_marked_as_known(evs))
                  IN  Ok([published_bytecode_bytes |-> published_bytecode_bytes.val,
                          l2_l1_long_messages |-> l2_l1_long_messages,
                          vm_events |-> Len(evs),
                          contract_deployment_count |-> contract_deployment_count])

-----------------------------------------------------------------------------
\* The events the executions of the model draw from.

\* A message of n non-zero bytes.
Message(n) == [i \in 1..n |-> (i % 255) + 1]

\* Lengths of the long messages: empty, one byte, one full word, one byte more.
MessageLengths == {0, 1, 32, 33}

\* Values no ABI decoder accepts as `bytes`: no data at all, a length word
\* that runs past the data, an offset word with a non-zero leading byte.
MalformedValues ==
    { <<>>,
      Word32(32) \o Word32(33) \o Message(1) \o Zeros(31),
      <<1>> \o Zeros(31) \o Word32(0) }

OtherAddress == 4660

H256One == Zeros(31) \o <<1>>

\* An EraVM bytecode hash of 2 words, an EVM bytecode hash of 5 bytes and a
\* hash with no bytecode marker.
HashEraVm == <<1, 0, 0, 2>> \o Zeros(27) \o <<7>>
HashEvm == <<2, 0, 0, 5>> \o Zeros(27) \o <<8>>
HashUnparseable == <<3, 0, 0, 2>> \o Zeros(27) \o <<9>>

L1Topics == <<L1_MESSAGE_EVENT_SIGNATURE, H256One, HashEvm>>

L1MessageEvents ==
    { VmEvent(L1_MESSENGER_ADDRESS, L1Topics, AbiEncodeBytes(Message(n))) :
          n \in MessageLengths }
    \cup { VmEvent(L1_MESSENGER_ADDRESS, L1Topics, v) : v \in MalformedValues }
    \cup { VmEvent(OtherAddress, L1Topics, <<>>),
           VmEvent(KNOWN_CODES_STORAGE_ADDRESS, L1Topics, AbiEncodeBytes(Message(1))),
           VmEvent(L1_MESSENGER_ADDRESS, SubSeq(L1Topics, 1, 2), <<>>),
           VmEvent(L1_MESSENGER_ADDRESS, L1Topics \o <<H256One>>, <<>>),
           VmEvent(L1_MESSENGER_ADDRESS,
                   <<L1_MESSENGER_BYTECODE_PUBLICATION_EVENT_SIGNATURE, HashEraVm, H256One>>,
                   <<>>) }

MarkedAsKnownEvents ==
    { VmEvent(KNOWN_CODES_STORAGE_ADDRESS, <<PUBLISHED_BYTECODE_SIGNATURE, h, H256One>>, <<>>) :
          h \in {HashEraVm, HashEvm, HashUnparseable} }
    \cup { VmEvent(KNOWN_CODES_STORAGE_ADDRESS,
                   <<PUBLISHED_BYTECODE_SIGNATURE, h, H256Zero>>, <<>>) :
               h \in {HashEraVm, HashUnparseable} }
    \cup { VmEvent(KNOWN_CODES_STORAGE_ADDRESS,
                   <<PUBLISHED_BYTECODE_SIGNATURE, HashUnparseable>>, <<>>),
           VmEvent(KNOWN_CODES_STORAGE_ADDRESS,
                   <<PUBLISHED_BYTECODE_SIGNATURE, HashUnparseable, H256One, H256One>>, <<>>),
           VmEvent(OtherAddress,
                   <<PUBLISHED_BYTECODE_SIGNATURE, HashUnparseable, H256One>>, <<>>),
           VmEvent(L1_MESSENGER_ADDRESS,
                   <<PUBLISHED_BYTECODE_SIGNATURE, HashEraVm, H256One>>, <<>>) }

DeployEvents ==
    { VmEvent(OtherAddress, <<>>, <<>>),
      VmEvent(OtherAddress, <<DEPLOY_EVENT_SIGNATURE>>, <<>>),
      VmEvent(OtherAddress, <<HashEvm, DEPLOY_EVENT_SIGNATURE>>, <<>>),
      VmEvent(KNOWN_CODES_STORAGE_ADDRESS,
              <<DEPLOY_EVENT_SIGNATURE, HashUnparseable, H256One>>, <<>>),
      VmEvent(L1_MESSENGER_ADDRESS,
              <<DEPLOY_EVENT_SIGNATURE, HashEraVm, H256One>>, <<>>) }

Events == L1MessageEvents \cup MarkedAsKnownEvents \cup DeployEvents

EventSeqs == UNION { [1..n -> Events] : n \in 0..MaxEvents }

-----------------------------------------------------------------------------
\* u64 and U256. A u64 is four 16-bit limbs, least significant first; a U256
\* is four u64 words, least significant first.

Limb == 2^16

U64(n) == <<n, 0, 0, 0>>
U64Max == <<Limb - 1, Limb - 1, Limb - 1, Limb - 1>>

U256FromU64(x) == <<x, U64(0), U64(0), U64(0)>>

\* U256::as_u64 panics when the value does not fit.
AsU64(x) ==
    IF x[2] = U64(0) /\ x[3] = U64(0) /\ x[4] = U64(0)
    THEN Ok(x[1])
    ELSE Panic("Integer overflow when casting to u64")

SubLimb(a, b, borrow) ==
    LET d == a - b - borrow IN
    IF d < 0 THEN [limb |-> d + Limb, borrow |-> 1] ELSE [limb |-> d, borrow |-> 0]

\* x - y modulo 2^64, and whether the subtraction overflowed.
U64OverflowingSub(x, y) ==
    LET l1 == SubLimb(x[1], y[1], 0)
        l2 == SubLimb(x[2], y[2], l1.borrow)
        l3 == SubLimb(x[3], y[3], l2.borrow)
        l4 == SubLimb(x[4], y[4], l3.borrow)
    IN  [val |-> <<l1.limb, l2.limb, l3.limb, l4.limb>>, overflow |-> l4.borrow = 1]

\* The `-` of u64: with overflow checks (debug builds) an overflow panics,
\* without them (release builds) the result wraps.
U64Sub(x, y, overflow_checks) ==
    LET r == U64OverflowingSub(x, y) IN
    IF r.overflow /\ overflow_checks
    THEN Panic("attempt to subtract with overflow")
    ELSE Ok(r.val)

-----------------------------------------------------------------------------
\* CallType and its wire form.

FarCallOpcodes == {"Normal", "Delegate", "Mimic"}

CallTypeCall(opcode) == [tag |-> "Call", opcode |-> opcode]
CallTypeCreate == [tag |-> "Create"]
CallTypeNearCall == [tag |-> "NearCall"]

U8_MAX == 255

\* u8::deserialize: the serialized value must be an unsigned byte.
U8Deserialize(w) ==
    IF w \in 0..U8_MAX THEN Ok(w) ELSE Err("invalid value, expected u8")

\* far_call_type_from_u8 with the bytes of Delegate and Mimic exchanged.
far_call_type_from_u8_swapped(w) ==
    LET res == U8Deserialize(w) IN
    IF res.tag = "Err" THEN res
    ELSE CASE res.val = 0 -> Ok("Normal")
           [] res.val = 1 -> Ok("Mimic")
           [] res.val = 2 -> Ok("Delegate")
           [] OTHER -> Err("Invalid FarCallOpcode")

far_call_type_from_u8(w) ==
    LET res == U8Deserialize(w) IN
    IF res.tag = "Err" THEN res
    ELSE CASE res.val = 0 -> Ok("Normal")
           [] res.val = 1 -> Ok("Delegate")
           [] res.val = 2 -> Ok("Mimic")
           [] OTHER -> Err("Invalid FarCallOpcode")

\* `*far_call_type as u8`: the discriminant of FarCallOpcode.
FarCallOpcodeAsU8(opcode) ==
    CASE opcode = "Normal" -> 0
      [] opcode = "Delegate" -> 1
      [] opcode = "Mimic" -> 2

far_call_type_to_u8(opcode) == Ok(FarCallOpcodeAsU8(opcode))

-----------------------------------------------------------------------------
\* Call

Call(type, from, to, parent_gas, gas, gas_used, value, input, output, error, revert_reason, calls) ==
    [type |-> type, from |-> from, to |-> to, parent_gas |-> parent_gas,
     gas |-> gas, gas_used |-> gas_used, value |-> value, input |-> input,
     output |-> output, error |-> error, revert_reason |-> revert_reason,
     calls |-> calls]

\* The equality #[derive(PartialEq)] would give: every field compared.
CallEqDerived(self, other) == self = other

\* impl PartialEq for Call; the comparison of calls is that of Vec<Call>.
RECURSIVE CallEq(_, _)
CallEq(self, other) ==
    /\ self.revert_reason = other.revert_reason
    /\ self.input = other.input
    /\ self.from = other.from
    /\ self.to = other.to
    /\ self.type = other.type
    /\ self.value = other.value
    /\ self.error = other.error
    /\ self.output = other.output
    /\ Len(self.calls) = Len(other.calls)
    /\ \A i \in 1..Len(self.calls) : CallEq(self.calls[i], other.calls[i])

\* new_high_level taking parent_gas from gas_used.
new_high_level_parent_gas_used(gas, gas_used, value, input, output, revert_reason, calls) ==
    Call(CallTypeCall("Normal"), AddressZero, BOOTLOADER_ADDRESS, gas_used, gas,
         gas_used, value, input, output, None, revert_reason, calls)

new_high_level(gas, gas_used, value, input, output, revert_reason, calls) ==
    Call(CallTypeCall("Normal"), AddressZero, BOOTLOADER_ADDRESS, gas, gas,
         gas_used, value, input, output, None, revert_reason, calls)

\* call_trace passing the gas limit as gas_used, the refund forgotten.
call_trace_no_refund(t, overflow_checks) ==
    IF t.call_traces = <<>> THEN None
    ELSE LET gas == AsU64(t.transaction.gas_limit) IN
         IF IsPanic(gas) THEN gas
         ELSE Some(new_high_level(gas.val, gas.val,
                                  t.transaction.execute.value,
                                  t.transaction.execute.calldata,
                                  <<>>, t.revert_reason, t.call_traces))

\* TransactionExecutionResult::call_trace. t.transaction.gas_limit stands for
\* transaction.gas_limit(), a U256.
call_trace(t, overflow_checks) ==
    IF t.call_traces = <<>> THEN None
    ELSE LET gas == AsU64(t.transaction.gas_limit) IN
         IF IsPanic(gas) THEN gas
         ELSE LET gas_used == U64Sub(gas.val, t.refunded_gas, overflow_checks) IN
              IF IsPanic(gas_used) THEN gas_used
              ELSE Some(new_high_level(gas.val, gas_used.val,
                                       t.transaction.execute.value,
                                       t.transaction.execute.calldata,
                                       <<>>, t.revert_reason, t.call_traces))

-----------------------------------------------------------------------------
\* The call trees and transactions the executions of the model draw from.

\* Most nodes of a call tree, the root included.
MaxCallNodes == 4

BaseCall ==
    Call(CallTypeCall("Normal"), 17, 18, U64(10), U64(9), U64(3),
         U256FromU64(U64(0)), <<1>>, <<2>>, None, None, <<>>)

\* The call trees of exactly n nodes and the call lists of n nodes in all.
RECURSIVE CallTrees(_), CallLists(_)
CallTrees(n) == { [BaseCall EXCEPT !.calls = cs] : cs \in CallLists(n - 1) }
CallLists(n) ==
    IF n = 0 THEN { <<>> }
    ELSE UNION { { <<t>> \o cs : t \in CallTrees(k), cs \in CallLists(n - k) } :
                 k \in 1..n }

\* The trees that differ from t in one field of its root.
RootEdits(t) ==
    { [t EXCEPT !.type = CallTypeCall("Delegate")],
      [t EXCEPT !.type = CallTypeCreate],
      [t EXCEPT !.from = 19],
      [t EXCEPT !.to = 19],
      [t EXCEPT !.parent_gas = U64(11)],
      [t EXCEPT !.gas = U64Max],
      [t EXCEPT !.gas_used = U64(4)],
      [t EXCEPT !.value = U256FromU64(U64(1))],
      [t EXCEPT !.input = <<>>],
      [t EXCEPT !.output = <<2, 0>>],
      [t EXCEPT !.error = Some("e")],
      [t EXCEPT !.revert_reason = Some("r")],
      [t EXCEPT !.calls = @ \o <<BaseCall>>] }
    \cup (IF t.calls = <<>> THEN {}
          ELSE { [t EXCEPT !.calls = SubSeq(@, 1, Len(@) - 1)] })

\* The trees that differ from t in one field of one node.
RECURSIVE Edits(_)
Edits(t) ==
    RootEdits(t)
    \cup UNION { { [t EXCEPT !.calls[i] = e] : e \in Edits(t.calls[i]) } :
                 i \in 1..Len(t.calls) }

\* t with the three gas fields of every node changed.
RECURSIVE Regas(_)
Regas(t) ==
    [t EXCEPT !.parent_gas = U64(21), !.gas = U64(22), !.gas_used = U64Max,
              !.calls = [i \in 1..Len(t.calls) |-> Regas(t.calls[i])]]

GasLimits ==
    { U256FromU64(U64(0)), U256FromU64(U64(5)), U256FromU64(<<0, 1, 0, 0>>),
      U256FromU64(U64Max), <<U64(0), U64(1), U64(0), U64(0)>> }

RefundedGas == { U64(0), U64(1), U64(5), <<0, 1, 0, 0>>, U64Max }

TransactionExecutionResult(gas_limit, value, calldata, refunded_gas, call_traces, revert_reason) ==
    [transaction |-> [gas_limit |-> gas_limit,
                      execute |-> [value |-> value, calldata |-> calldata]],
     refunded_gas |-> refunded_gas,
     call_traces |-> call_traces,
     revert_reason |-> revert_reason]

\* The arguments of Call::new_high_level.
NewHighLevelArgs ==
    [gas : {U64(0), U64(5), U64Max},
     gas_used : {U64(0), U64(3), U64Max},
     value : {U256FromU64(U64(0)), U256FromU64(U64(7))},
     input : {<<>>, <<1, 2>>},
     output : {<<>>, <<4>>},
     revert_reason : {None, Some("r")},
     calls : UNION { CallLists(n) : n \in 0..(MaxCallNodes - 1) }]

TransactionExecutionResults ==
    { TransactionExecutionResult(g, v, c, r, cs, rr) :
          g \in GasLimits,
          v \in { U256FromU64(U64(0)), U256FromU64(U64(7)) },
          c \in { <<>>, <<1, 2>> },
          r \in RefundedGas,
          cs \in UNION { CallLists(n) : n \in 0..(MaxCallNodes - 1) },
          rr \in { None, Some("r") } }

-----------------------------------------------------------------------------
\* ExecutionResult

\* The payload of every variant is a record; Success carries its Vec<u8> as
\* the record Bytes(output).
Bytes(output) == [bytes |-> output]

Success(output) == [variant |-> "Success", output |-> Bytes(output)]
Revert(output) == [variant |-> "Revert", output |-> output]
Halt(reason) == [variant |-> "Halt", reason |-> reason]

\* is_failed matching Revert alone.
is_failed_revert_only(self) == self.variant = "Revert"

\* matches!(self, Self::Revert { .. } | Self::Halt { .. })
is_failed(self) == self.variant \in {"Revert", "Halt"}

\* BatchTransactionExecutionResult::was_halted, of tx_result.result.
was_halted(self) == self.variant = "Halt"

-----------------------------------------------------------------------------
\* The execution results the executions of the model draw from.

\* Longest output of an execution result.
MaxOutputLen == 2

Outputs == UNION { [1..n -> {0, 255}] : n \in 0..MaxOutputLen }

\* VmRevertReason values, the empty General reason among them.
RevertReasons ==
    { [kind |-> "General", msg |-> m, data |-> d] : m \in {"", "reverted"}, d \in Outputs }
    \cup { [kind |-> "Unknown", function_selector |-> <<8, 195, 121, 160>>, data |-> d] :
               d \in Outputs }
    \cup { [kind |-> "InnerTxError"], [kind |-> "VmError"] }

\* Halt values, the empty custom reason among them.
HaltReasons ==
    { [kind |-> "ValidationFailed", reason |-> r] : r \in RevertReasons }
    \cup { [kind |-> "TracerCustom", msg |-> m] : m \in {"", "stopped"} }
    \cup { [kind |-> "BootloaderOutOfGas"], [kind |-> "NotEnoughGasProvided"],
           [kind |-> "VMPanic"], [kind |-> "Unknown", reason |-> [kind |-> "VmError"]] }

ExecutionResults ==
    { Success(o) : o \in Outputs }
    \cup { Revert(r) : r \in RevertReasons }
    \cup { Halt(h) : h \in HaltReasons }

\* No arguments and no hash in progress.
NoArgs == <<>>
NoHasher == [event |-> "", round |-> 0, state |-> <<>>]

-----------------------------------------------------------------------------
\* ethabi::long_signature: the Keccak-256 hash of "Name(type,...,type)".

\* ASCII of the names the declarations use.
AsciiContractDeployed == <<67, 111, 110, 116, 114, 97, 99, 116, 68, 101, 112, 108, 111, 121, 101, 100>>
AsciiBytecodeL1PublicationRequested == <<66, 121, 116, 101, 99, 111, 100, 101, 76, 49, 80, 117, 98, 108, 105, 99, 97, 116, 105, 111, 110, 82, 101, 113, 117, 101, 115, 116, 101, 100>>
AsciiMarkedAsKnown == <<77, 97, 114, 107, 101, 100, 65, 115, 75, 110, 111, 119, 110>>
AsciiL1MessageSent == <<76, 49, 77, 101, 115, 115, 97, 103, 101, 83, 101, 110, 116>>
AsciiAddress == <<97, 100, 100, 114, 101, 115, 115>>
AsciiBytes32 == <<98, 121, 116, 101, 115, 51, 50>>
AsciiBool == <<98, 111, 111, 108>>
AsciiBytes == <<98, 121, 116, 101, 115>>

\* ParamType::Address, FixedBytes(32), Bool, Bytes written as in a signature.
ParamTypeName(param) ==
    CASE param = "Address" -> AsciiAddress
      [] param = "FixedBytes(32)" -> AsciiBytes32
      [] param = "Bool" -> AsciiBool
      [] param = "Bytes" -> AsciiBytes

\* The parameter types joined by commas (ASCII 44).
RECURSIVE JoinParams(_)
JoinParams(params) ==
    IF params = <<>> THEN <<>>
    ELSE IF Len(params) = 1 THEN ParamTypeName(params[1])
    ELSE ParamTypeName(params[1]) \o <<44>> \o JoinParams(Tail(params))

\* name ( params ): ASCII 40 and 41 are the parentheses.
FillSignature(name, params) == name \o <<40>> \o JoinParams(params) \o <<41>>

\* The four declarations the signature constants are declared for.
EventDeclarations ==
    { [event |-> "ContractDeployed",
       signature |-> FillSignature(AsciiContractDeployed,
                                   <<"Address", "FixedBytes(32)", "Address">>)],
      [event |-> "BytecodeL1PublicationRequested",
       signature |-> FillSignature(AsciiBytecodeL1PublicationRequested,
                                   <<"FixedBytes(32)">>)],
      [event |-> "L1MessageSent",
       signature |-> FillSignature(AsciiL1MessageSent,
                                   <<"Address", "FixedBytes(32)", "Bytes">>)],
      [event |-> "MarkedAsKnown",
       signature |-> FillSignature(AsciiMarkedAsKnown, <<"FixedBytes(32)", "Bool">>)] }

\* Keccak-256: a sponge of 1600 bits, 136 bytes of rate, 24 rounds. The state
\* is indexed by bit, bit z of lane (x, y) at 64 * (5 * y + x) + z, which is
\* bit i % 8 of byte i \div 8 of the state.
KeccakRate == 136
KeccakRounds == 24
StateBits == 0..1599

Idx(x, y, z) == 64 * (5 * y + x) + z
LaneX(i) == (i \div 64) % 5
LaneY(i) == i \div 320
LaneZ(i) == i % 64

Xor(a, b) == (a + b) % 2

\* Rotation offsets, by x then y.
RotationOffsets ==
    << <<0, 36, 3, 41, 18>>,
       <<1, 44, 10, 45, 2>>,
       <<62, 6, 43, 15, 61>>,
       <<28, 55, 25, 21, 56>>,
       <<27, 20, 39, 8, 14>> >>

\* The bits set in the round constants.
RoundConstantBits ==
    << {0}, {1, 7, 15}, {1, 3, 7, 15, 63}, {15, 31, 63},
       {0, 1, 3, 7, 15}, {0, 31}, {0, 7, 15, 31, 63}, {0, 3, 15, 63},
       {1, 3, 7}, {3, 7}, {0, 3, 15, 31}, {1, 3, 31},
       {0, 1, 3, 7, 15, 31}, {0, 1, 3, 7, 63}, {0, 3, 7, 15, 63}, {0, 1, 15, 63},
       {1, 15, 63}, {7, 63}, {1, 3, 15}, {1, 3, 31, 63},
       {0, 7, 15, 31, 63}, {7, 15, 63}, {0, 31}, {3, 15, 31, 63} >>

\* pad10*1 with the Keccak domain byte 0x01, for a message shorter than the
\* rate (one block).
KeccakPad(msg) ==
    IF Len(msg) = KeccakRate - 1 THEN msg \o <<129>>
    ELSE msg \o <<1>> \o Zeros(KeccakRate - Len(msg) - 2) \o <<128>>

\* The state after the padded block is xored into the zero state.
KeccakAbsorb(msg) ==
    LET block == KeccakPad(msg) IN
    [i \in StateBits |->
        IF i < 8 * KeccakRate THEN (block[(i \div 8) + 1] \div 2^(i % 8)) % 2 ELSE 0]

Theta(A) ==
    LET C(x, z) == (A[Idx(x, 0, z)] + A[Idx(x, 1, z)] + A[Idx(x, 2, z)]
                        + A[Idx(x, 3, z)] + A[Idx(x, 4, z)]) % 2
        D(x, z) == Xor(C((x + 4) % 5, z), C((x + 1) % 5, (z + 63) % 64))
    IN  [i \in StateBits |-> Xor(A[i], D(LaneX(i), LaneZ(i)))]

\* B[y][2x + 3y] = rotl(A[x][y], r[x][y]), read from the side of B.
RhoPi(A) ==
    [i \in StateBits |->
        LET x == (LaneX(i) + 3 * LaneY(i)) % 5
            y == LaneX(i)
        IN  A[Idx(x, y, (LaneZ(i) + 64 - RotationOffsets[x + 1][y + 1]) % 64)]]

Chi(B) ==
    [i \in StateBits |->
        LET x == LaneX(i)
            y == LaneY(i)
            z == LaneZ(i)
        IN  Xor(B[i], (1 - B[Idx((x + 1) % 5, y, z)]) * B[Idx((x + 2) % 5, y, z)])]

Iota(A, round) ==
    [i \in StateBits |->
        IF i < 64 /\ i \in RoundConstantBits[round + 1] THEN 1 - A[i] ELSE A[i]]

KeccakF(A, round) ==
    LET theta == Theta(A)
        rhopi == RhoPi(theta)
        chi == Chi(rhopi)
    IN  Iota(chi, round)

\* The first 32 bytes of the state.
KeccakSqueeze(A) ==
    [k \in 1..32 |->
        A[8 * k - 8] + 2 * A[8 * k - 7] + 4 * A[8 * k - 6] + 8 * A[8 * k - 5]
            + 16 * A[8 * k - 4] + 32 * A[8 * k - 3] + 64 * A[8 * k - 2]
            + 128 * A[8 * k - 1]]

-----------------------------------------------------------------------------
\* Specifications. Every function is pure: an execution draws the inputs in
\* its initial state and each action records the call made (op) and what it
\* returned (ret).

\* Event extraction and metrics over the events of one execution result.
Init ==
    /\ events \in EventSeqs
    /\ lhs = BaseCall
    /\ rhs = BaseCall
    /\ tx = TransactionExecutionResult(U256FromU64(U64(0)), U256FromU64(U64(0)),
                                       <<>>, U64(0), <<>>, None)
    /\ call_type = "Normal"
    /\ wire = 0
    /\ result = Success(<<>>)
    /\ args = NoArgs
    /\ hasher = NoHasher
    /\ op = "init"
    /\ ret = None

Returns(name, value) ==
    /\ op' = name
    /\ ret' = value
    /\ UNCHANGED <<events, lhs, rhs, tx, call_type, wire, result, args, hasher>>

ExtractLongL2ToL1Messages ==
    Returns("extract_long_l2_to_l1_messages", extract_long_l2_to_l1_messages(events))

ExtractPublishedBytecodes ==
    Returns("extract_published_bytecodes", Ok(extract_published_bytecodes(events)))

ExtractBytecodesMarkedAsKnown ==
    Returns("extract_bytecodes_marked_as_known",
            Ok(extract_bytecodes_marked_as_known(events)))

ContainsContractDeployment ==
    Returns("contains_contract_deployment", Ok(contains_contract_deployment(events)))

GetExecutionMetrics ==
    Returns("get_execution_metrics", get_execution_metrics(events))

Next ==
    \/ ExtractLongL2ToL1Messages
    \/ ExtractPublishedBytecodes
    \/ ExtractBytecodesMarkedAsKnown
    \/ ContainsContractDeployment
    \/ GetExecutionMetrics

Spec == Init /\ [][Next]_vars

-----------------------------------------------------------------------------
\* Properties of the event extraction and of the metrics.

\* The positions of the events that satisfy Admits, and the rank of position
\* i among them.
Admitted(Admits(_)) == { i \in 1..Len(events) : Admits(events[i]) }
Rank(I, i) == Cardinality({ j \in I : j <= i })

RECURSIVE SumOver(_, _)
SumOver(I, f) ==
    IF I = {} THEN 0
    ELSE LET i == CHOOSE j \in I : TRUE IN f[i] + SumOver(I \ {i}, f)

\* v is the ABI encoding of a single dynamic byte array.
IsAbiBytes(v) ==
    /\ Len(v) >= 64
    /\ \E n \in 0..(Len(v) - 64) : v = AbiEncodeBytes(SubSeq(v, 65, 64 + n))

AdmitsL1Message(e) ==
    /\ e.address = L1_MESSENGER_ADDRESS
    /\ Len(e.indexed_topics) = 3
    /\ e.indexed_topics[1] = L1_MESSAGE_EVENT_SIGNATURE

AdmitsMarkedAsKnown(e) ==
    /\ e.address = KNOWN_CODES_STORAGE_ADDRESS
    /\ Len(e.indexed_topics) = 3
    /\ e.indexed_topics[1] = PUBLISHED_BYTECODE_SIGNATURE

AdmitsPublished(e) == AdmitsMarkedAsKnown(e) /\ e.indexed_topics[3] # H256Zero

\* C1: extract_long_l2_to_l1_messages returns one payload per event at
\* L1_MESSENGER_ADDRESS with exactly 3 topics and topic 0 equal to
\* L1_MESSAGE_EVENT_SIGNATURE, in event order, each payload being the byte
\* array whose ABI encoding is the event's value; every other event
\* contributes nothing, and the call returns whenever every admitted value is
\* an ABI encoding.
C1_LongMessagesExtracted ==
    op = "extract_long_l2_to_l1_messages" =>
        LET I == Admitted(AdmitsL1Message) IN
        /\ (\A i \in I : IsAbiBytes(events[i].value)) => ret.tag = "Ok"
        /\ ret.tag = "Ok" =>
            /\ Len(ret.val) = Cardinality(I)
            /\ \A i \in I : AbiEncodeBytes(ret.val[Rank(I, i)]) = events[i].value

C1_Witness ==
    /\ op = "extract_long_l2_to_l1_messages"
    /\ Len(events) = 2
    /\ ~AdmitsL1Message(events[1])
    /\ ret = Ok(<<Message(33)>>)

\* The least multiple of 32 that is not below n.
RoundUpTo32(n) == CHOOSE m \in n..(n + 31) : m % 32 = 0

\* The length of the message an L1 message event carries.
PayloadLen(e) == CHOOSE n \in 0..Len(e.value) : e.value = AbiEncodeBytes(SubSeq(e.value, 65, 64 + n))

SingleMessage(n) ==
    events = <<VmEvent(L1_MESSENGER_ADDRESS, L1Topics, AbiEncodeBytes(Message(n)))>>

\* C2: in the metrics, l2_l1_long_messages is the sum over the extracted long
\* messages of the message length rounded up to a multiple of 32, plus 64:
\* 96 for a single message of 1 or of 32 bytes, 128 for one of 33 bytes, 0
\* with no admitted message.
C2_LongMessageBytes ==
    (op = "get_execution_metrics" /\ ret.tag = "Ok") =>
        LET I == Admitted(AdmitsL1Message)
            Size == [i \in I |-> RoundUpTo32(PayloadLen(events[i])) + 64]
        IN  /\ ret.val.l2_l1_long_messages = SumOver(I, Size)
            /\ SingleMessage(1) => ret.val.l2_l1_long_messages = 96
            /\ SingleMessage(32) => ret.val.l2_l1_long_messages = 96
            /\ SingleMessage(33) => ret.val.l2_l1_long_messages = 128
            /\ I = {} => ret.val.l2_l1_long_messages = 0

C2_Witness ==
    /\ op = "get_execution_metrics"
    /\ Len(events) = 2
    /\ Cardinality(Admitted(AdmitsL1Message)) = 2
    /\ ret.tag = "Ok"
    /\ ret.val.l2_l1_long_messages = 96 + 128

\* C3: extract_published_bytecodes returns topic 1 of exactly the events at
\* KNOWN_CODES_STORAGE_ADDRESS with 3 topics, topic 0 equal to
\* PUBLISHED_BYTECODE_SIGNATURE and a non-zero topic 2, in event order and
\* with duplicates kept.
C3_PublishedBytecodesExtracted ==
    op = "extract_published_bytecodes" =>
        LET I == Admitted(AdmitsPublished) IN
        /\ ret.tag = "Ok"
        /\ Len(ret.val) = Cardinality(I)
        /\ \A i \in I : ret.val[Rank(I, i)] = events[i].indexed_topics[2]

C3_Witness ==
    /\ op = "extract_published_bytecodes"
    /\ ret = Ok(<<HashEvm, HashEvm>>)

C5_PublishedBytecodeBytes ==
    (op = "get_execution_metrics" /\ ret.tag = "Ok") =>
        LET I == Admitted(AdmitsPublished)
            Size == [i \in I |->
                        LenInBytes(events[i].indexed_topics[2]) + PUBLISH_BYTECODE_OVERHEAD]
        IN  ret.val.published_bytecode_bytes = SumOver(I, Size)

C5_Witness ==
    /\ op = "get_execution_metrics"
    /\ Len(events) = 2
    /\ events[1] = events[2]
    /\ ret.tag = "Ok"
    /\ ret.val.published_bytecode_bytes = 2 * (64 + PUBLISH_BYTECODE_OVERHEAD)

C7_ContainsContractDeployment ==
    op = "contains_contract_deployment" =>
        /\ ret.tag = "Ok"
        /\ ret.val <=> \E i \in 1..Len(events) :
                           /\ events[i].indexed_topics # <<>>
                           /\ Head(events[i].indexed_topics) = DEPLOY_EVENT_SIGNATURE
        /\ events = <<>> => ret.val = FALSE

C7_Witness ==
    /\ op = "contains_contract_deployment"
    /\ Len(events) = 2
    /\ events[1].indexed_topics = <<>>
    /\ events[2].indexed_topics = <<DEPLOY_EVENT_SIGNATURE>>
    /\ events[2].address = OtherAddress
    /\ ret = Ok(TRUE)

-----------------------------------------------------------------------------
\* The equality of two call trees.

InitCallEq ==
    /\ lhs \in UNION { CallTrees(n) : n \in 1..MaxCallNodes }
    /\ rhs \in {lhs} \cup Edits(lhs) \cup {Regas(lhs)} \cup Edits(Regas(lhs))
    /\ events = <<>>
    /\ tx = TransactionExecutionResult(U256FromU64(U64(0)), U256FromU64(U64(0)),
                                       <<>>, U64(0), <<>>, None)
    /\ call_type = "Normal"
    /\ wire = 0
    /\ result = Success(<<>>)
    /\ args = NoArgs
    /\ hasher = NoHasher
    /\ op = "init"
    /\ ret = None

Eq == Returns("eq", Ok(CallEq(lhs, rhs)))

EqReversed == Returns("eq_reversed", Ok(CallEq(rhs, lhs)))

NextCallEq == Eq \/ EqReversed

SpecCallEq == InitCallEq /\ [][NextCallEq]_vars

\* The fields of a call tree that the claim says are compared.
RECURSIVE Compared(_)
Compared(t) ==
    [revert_reason |-> t.revert_reason, input |-> t.input, from |-> t.from,
     to |-> t.to, type |-> t.type, value |-> t.value, error |-> t.error,
     output |-> t.output,
     calls |-> [i \in 1..Len(t.calls) |-> Compared(t.calls[i])]]

\* C8: two Call trees are equal iff revert_reason, input, from, to, type,
\* value, error and output match and the calls lists are equal element by
\* element under the same relation; parent_gas, gas and gas_used are ignored
\* at every depth.
C8_CallEqualityIgnoresGas ==
    op \in {"eq", "eq_reversed"} =>
        /\ ret.val <=> (Compared(lhs) = Compared(rhs))
        /\ rhs = Regas(lhs) => ret.val

C8_Witness ==
    /\ op = "eq"
    /\ Len(lhs.calls) = 1
    /\ Len(lhs.calls[1].calls) = 1
    /\ rhs = Regas(lhs)
    /\ rhs.calls[1].calls[1].gas_used # lhs.calls[1].calls[1].gas_used
    /\ ret = Ok(TRUE)

-----------------------------------------------------------------------------
\* The call trace of a transaction execution result.

InitCallTrace ==
    /\ tx \in TransactionExecutionResults
    /\ events = <<>>
    /\ lhs = BaseCall
    /\ rhs = BaseCall
    /\ call_type = "Normal"
    /\ wire = 0
    /\ result = Success(<<>>)
    /\ args = NoArgs
    /\ hasher = NoHasher
    /\ op = "init"
    /\ ret = None

CallTrace ==
    \E overflow_checks \in BOOLEAN :
        Returns("call_trace", call_trace(tx, overflow_checks))

NextCallTrace == CallTrace

SpecCallTrace == InitCallTrace /\ [][NextCallTrace]_vars

AddLimb(a, b, carry) ==
    LET sum == a + b + carry IN [limb |-> sum % Limb, carry |-> sum \div Limb]

\* x + y = z over the naturals, for u64 x and y and a U256 z.
SumsTo(x, y, z) ==
    LET l1 == AddLimb(x[1], y[1], 0)
        l2 == AddLimb(x[2], y[2], l1.carry)
        l3 == AddLimb(x[3], y[3], l2.carry)
        l4 == AddLimb(x[4], y[4], l3.carry)
    IN  z = <<<<l1.limb, l2.limb, l3.limb, l4.limb>>, U64(l4.carry), U64(0), U64(0)>>

\* x <= y for u64 x and y.
U64Leq(x, y) ==
    \/ x = y
    \/ \E k \in 1..4 : x[k] < y[k] /\ \A j \in (k + 1)..4 : x[j] = y[j]

FitsU64(z) == z[2] = U64(0) /\ z[3] = U64(0) /\ z[4] = U64(0)

\* The root the claim describes, up to gas_used.
IsSynthesizedRoot(r) ==
    /\ r.tag = "Some"
    /\ U256FromU64(r.val.gas) = tx.transaction.gas_limit
    /\ r.val.value = tx.transaction.execute.value
    /\ r.val.input = tx.transaction.execute.calldata
    /\ r.val.revert_reason = tx.revert_reason
    /\ r.val.calls = tx.call_traces

-----------------------------------------------------------------------------
\* The wire form of CallType::Call.

InitWire ==
    /\ call_type \in FarCallOpcodes
    /\ wire \in 0..(U8_MAX + 1)
    /\ events = <<>>
    /\ lhs = BaseCall
    /\ rhs = BaseCall
    /\ tx = TransactionExecutionResult(U256FromU64(U64(0)), U256FromU64(U64(0)),
                                       <<>>, U64(0), <<>>, None)
    /\ result = Success(<<>>)
    /\ args = NoArgs
    /\ hasher = NoHasher
    /\ op = "init"
    /\ ret = None

\* Serializes CallType::Call(call_type): the byte goes on the wire.
FarCallTypeToU8 ==
    LET written == far_call_type_to_u8(call_type) IN
    /\ wire' = written.val
    /\ op' = "far_call_type_to_u8"
    /\ ret' = written
    /\ UNCHANGED <<events, lhs, rhs, tx, call_type, result, args, hasher>>

\* Deserializes the value on the wire.
FarCallTypeFromU8 == Returns("far_call_type_from_u8", far_call_type_from_u8(wire))

NextWire == FarCallTypeToU8 \/ FarCallTypeFromU8

SpecWire == InitWire /\ [][NextWire]_vars

\* C10: Call(subtype) is written as one unsigned byte, Normal = 0,
\* Delegate = 1, Mimic = 2; decoding what was just encoded yields the subtype
\* encoded, and decoding anything but 0, 1, 2 returns an error value, never a
\* panic.
C10_WireForm ==
    /\ [](op = "far_call_type_to_u8" =>
            /\ ret.tag = "Ok"
            /\ wire = ret.val
            /\ wire \in 0..255
            /\ call_type = "Normal" <=> wire = 0
            /\ call_type = "Delegate" <=> wire = 1
            /\ call_type = "Mimic" <=> wire = 2)
    /\ [](op = "far_call_type_from_u8" =>
            /\ ret.tag \in {"Ok", "Err"}
            /\ wire \notin {0, 1, 2} <=> ret.tag = "Err")
    /\ [][(op = "far_call_type_to_u8" /\ op' = "far_call_type_from_u8")
              => ret' = Ok(call_type)]_vars

C10_Witness ==
    /\ op = "far_call_type_from_u8"
    /\ call_type = "Delegate"
    /\ wire = 1
    /\ ret = Ok("Delegate")

-----------------------------------------------------------------------------
\* The outcome of an execution.

InitResult ==
    /\ result \in ExecutionResults
    /\ events = <<>>
    /\ lhs = BaseCall
    /\ rhs = BaseCall
    /\ tx = TransactionExecutionResult(U256FromU64(U64(0)), U256FromU64(U64(0)),
                                       <<>>, U64(0), <<>>, None)
    /\ call_type = "Normal"
    /\ wire = 0
    /\ args = NoArgs
    /\ hasher = NoHasher
    /\ op = "init"
    /\ ret = None

IsFailed == Returns("is_failed", Ok(is_failed(result)))

WasHalted == Returns("was_halted", Ok(was_halted(result)))

NextResult == IsFailed \/ WasHalted

SpecResult == InitResult /\ [][NextResult]_vars

\* C11: is_failed() returns true for every Revert and every Halt and false for
\* every Success, whatever the payload; it returns a value for every
\* ExecutionResult.
C11_IsFailed ==
    op = "is_failed" =>
        /\ ret.tag = "Ok"
        /\ ret.val \in BOOLEAN
        /\ ret.val <=> (result.variant = "Revert" \/ result.variant = "Halt")
        /\ ~ret.val <=> result.variant = "Success"

C11_Witness ==
    /\ op = "is_failed"
    /\ result = Halt([kind |-> "TracerCustom", msg |-> ""])
    /\ ret = Ok(TRUE)

-----------------------------------------------------------------------------
\* The long signatures of the four event declarations.

InitSignature ==
    /\ hasher \in { [event |-> d.event, round |-> 0, state |-> KeccakAbsorb(d.signature)] :
                        d \in EventDeclarations }
    /\ events = <<>>
    /\ lhs = BaseCall
    /\ rhs = BaseCall
    /\ tx = TransactionExecutionResult(U256FromU64(U64(0)), U256FromU64(U64(0)),
                                       <<>>, U64(0), <<>>, None)
    /\ call_type = "Normal"
    /\ wire = 0
    /\ result = Success(<<>>)
    /\ args = NoArgs
    /\ op = "init"
    /\ ret = None

\* One round of the permutation.
KeccakRound ==
    /\ hasher.round < KeccakRounds
    /\ hasher' = [hasher EXCEPT !.round = @ + 1, !.state = KeccakF(@, hasher.round)]
    /\ UNCHANGED <<events, lhs, rhs, tx, call_type, wire, result, args, op, ret>>

\* The hash is read once the permutation is done.
LongSignature ==
    /\ hasher.round = KeccakRounds
    /\ Returns("long_signature", Ok(KeccakSqueeze(hasher.state)))

NextSignature == KeccakRound \/ LongSignature

SpecSignature == InitSignature /\ [][NextSignature]_vars

\* C12: each signature constant is the long signature of its declaration:
\* ContractDeployed(address,bytes32,address),
\* BytecodeL1PublicationRequested(bytes32), MarkedAsKnown(bytes32,bool) and
\* L1MessageSent(address,bytes32,bytes).
C12_SignaturesMatch ==
    op = "long_signature" =>
        /\ hasher.event = "ContractDeployed" => ret = Ok(DEPLOY_EVENT_SIGNATURE)
        /\ hasher.event = "BytecodeL1PublicationRequested" =>
               ret = Ok(L1_MESSENGER_BYTECODE_PUBLICATION_EVENT_SIGNATURE)
        /\ hasher.event = "MarkedAsKnown" => ret = Ok(PUBLISHED_BYTECODE_SIGNATURE)
        /\ hasher.event = "L1MessageSent" => ret = Ok(L1_MESSAGE_EVENT_SIGNATURE)

C12_Witness ==
    /\ op = "long_signature"
    /\ hasher.event = "ContractDeployed"
    /\ hasher.round = KeccakRounds
    /\ ret.tag = "Ok"
    /\ Len(ret.val) = 32
    /\ ret.val[1] = 41
    /\ ret.val[32] = 229

-----------------------------------------------------------------------------
\* The synthesized top-level call.

InitNewHighLevel ==
    /\ args \in NewHighLevelArgs
    /\ events = <<>>
    /\ lhs = BaseCall
    /\ rhs = BaseCall
    /\ tx = TransactionExecutionResult(U256FromU64(U64(0)), U256FromU64(U64(0)),
                                       <<>>, U64(0), <<>>, None)
    /\ call_type = "Normal"
    /\ wire = 0
    /\ result = Success(<<>>)
    /\ hasher = NoHasher
    /\ op = "init"
    /\ ret = None

NewHighLevel ==
    Returns("new_high_level",
            Ok(new_high_level(args.gas, args.gas_used, args.value, args.input,
                              args.output, args.revert_reason, args.calls)))

NextNewHighLevel == NewHighLevel

SpecNewHighLevel == InitNewHighLevel /\ [][NextNewHighLevel]_vars

\* What the root takes from every argument but output.
IsHighLevelRoot(r) ==
    /\ r.type = [tag |-> "Call", opcode |-> "Normal"]
    /\ r.from = 0
    /\ r.to = BOOTLOADER_ADDRESS
    /\ r.parent_gas = args.gas
    /\ r.gas = args.gas
    /\ r.gas_used = args.gas_used
    /\ r.value = args.value
    /\ r.input = args.input
    /\ r.error = [tag |-> "None"]
    /\ r.revert_reason = args.revert_reason
    /\ r.calls = args.calls

\* C13 as stated: new_high_level always builds a root of type Call(Normal)
\* with from = zero, to = BOOTLOADER_ADDRESS, parent_gas = gas, error absent
\* and output = empty, carrying gas, gas_used, value, input, revert_reason
\* and the children unchanged.
C13_OutputEmpty ==
    op = "new_high_level" =>
        /\ ret.tag = "Ok"
        /\ IsHighLevelRoot(ret.val)
        /\ ret.val.output = <<>>

\* C13 amended: the same root, with output = the output supplied (the one
\* caller of this file, call_trace, supplies an empty output).
C13_NewHighLevel ==
    op = "new_high_level" =>
        /\ ret.tag = "Ok"
        /\ IsHighLevelRoot(ret.val)
        /\ ret.val.output = args.output

C13_Witness ==
    /\ op = "new_high_level"
    /\ args.gas = U64(5)
    /\ args.gas_used = U64Max
    /\ args.output = <<4>>
    /\ Len(args.calls) = 2
    /\ ret.tag = "Ok"
    /\ ret.val.output = <<4>>
    /\ ret.val.parent_gas = U64(5)
    /\ Len(ret.val.calls) = 2

-----------------------------------------------------------------------------
\* Published bytecodes among the bytecodes marked as known.

\* p is k with some elements left out.
IsSubsequence(p, k) ==
    \E f \in [1..Len(p) -> 1..Len(k)] :
        /\ \A i \in 1..Len(p) : k[f[i]] = p[i]
        /\ \A i, j \in 1..Len(p) : i < j => f[i] < f[j]

\* C14: the hashes extract_published_bytecodes returns are an order-preserving
\* subsequence of those extract_bytecodes_marked_as_known returns; in the
\* metrics the number of hashes summed into published_bytecode_bytes is at
\* most contract_deployment_count, with equality iff no admitted
\* marked-as-known event has a zero third topic.
C14_PublishedWithinKnown ==
    /\ op = "extract_published_bytecodes" =>
           IsSubsequence(ret.val, extract_bytecodes_marked_as_known(events))
    /\ op = "extract_bytecodes_marked_as_known" =>
           IsSubsequence(extract_published_bytecodes(events), ret.val)
    /\ (op = "get_execution_metrics" /\ ret.tag = "Ok") =>
           LET summed == Len(extract_published_bytecodes(events))
               zeroFlag == \E i \in Admitted(AdmitsMarkedAsKnown) :
                               events[i].indexed_topics[3] = H256Zero
           IN  /\ summed <= ret.val.contract_deployment_count
               /\ summed = ret.val.contract_deployment_count <=> ~zeroFlag

C14_Witness ==
    /\ op = "get_execution_metrics"
    /\ Len(events) = 2
    /\ ret.tag = "Ok"
    /\ ret.val.contract_deployment_count = 2
    /\ extract_published_bytecodes(events) = <<HashEraVm>>
    /\ events[1].indexed_topics[3] = H256Zero

====
